---- MODULE Spec2Model ----
(***************************************************************************)
(* Model of trello-gcal-sync: the webhook handler's reconciliation pass    *)
(* (api/handlers.go), the Google Calendar client it calls                  *)
(* (integrations/calendar client) and the card table it reads and writes.  *)
(*                                                                         *)
(* A pass is split at its interactions with shared state: the lookup of    *)
(* the card (DB.First), the decision with its single calendar call, and    *)
(* the final DB.Save.  Spec delivers notifications one at a time (the      *)
(* serialized delivery that spec section 5 states as the precondition).    *)
(* CreatedAt/UpdatedAt are bookkeeping and are left out.                   *)
(***************************************************************************)
EXTENDS Integers, Sequences, FiniteSets, TLC

VARIABLES
    store,      \* the cards table: a function from primary key to Card
    events,     \* the remote calendar: sequence of events ever inserted
    pc,         \* per worker: position of the request it is serving
    payload,    \* per worker: the decoded TrelloWebhookPayload
    card,       \* per worker: the local `card` of processCardUpdate
    calls,      \* per worker: calendar calls issued by the pass, in order
    dbops,      \* per worker: store calls issued by the pass, in order
    result,     \* per worker: what processCardUpdate returned
    status,     \* per worker: HTTP status of the last answered request
    before,     \* per worker: the cards table when the request arrived
    linked,     \* per task: id returned by the latest successful create/update,
                \* cleared when a delete of that id is attempted
    passes,     \* number of notifications received so far
    mainpc,     \* main goroutine: "register", then "wait" (blocked on <-done)
    regIdx,     \* main: index into boardIDs of the board being registered
    webhookIDs, \* main: the map boardId -> webhookID built at startup
    hooks,      \* the webhooks that exist at Trello
    retry,      \* the running (or last) retry.Do: operation, argument,
                \* classified outcome of every attempt, and what it returned
    sigCh,      \* number of signals buffered in sigCh (capacity 2)
    signals,    \* number of signals sent to the process so far
    sigpc,      \* signal goroutine: "wait", a step of cleanup, "spawn", "end"
    sig2pc,     \* second-signal goroutine: "none" or "wait"
    accepting,  \* the HTTP server accepts new requests
    shutdownResult, \* what srv.Shutdown returned: "none", "graceful", "timeout"
    visited,    \* cleanup: webhooks the deregistration loop has iterated over
    delCalls,   \* per webhook: number of DeleteWebhook calls made
    delFailed,  \* webhooks whose DeleteWebhook returned an error
    dbOpen,     \* the database handle has not been closed
    done,       \* the channel `done` is closed
    exit,       \* "running", or how the process ended
    overlapped, \* a request was accepted while another was being served
    health      \* what the last health check wrote: status codes and bodies

handlerVars == <<store, events, pc, payload, card, calls, dbops, result, status,
                 before, linked, passes>>

mainVars == <<mainpc, regIdx, webhookIDs, hooks, retry, sigCh, signals, sigpc,
              sig2pc, accepting, shutdownResult, visited, delCalls, delFailed,
              dbOpen, done, exit>>

auxVars == <<overlapped, health>>

vars == <<handlerVars, mainVars, auxVars>>

(***************************************************************************)
(* Bounds and input domains                                                *)
(***************************************************************************)
MaxPasses == 3
MaxSignals == 2

Workers == {"w1", "w2"}
TaskIds == {"t1", "t2"}
CardNames == {"Ship release", "Fix"}
DueStrings == {"", "tomorrow", "2025-03-10T00:00:00Z", "2025-03-12T09:30:00.5Z"}

\* names of the events the remote hands out, in order of insertion
EventName == <<"e1", "e2", "e3", "e4", "e5", "e6", "e7", "e8">>

(***************************************************************************)
(* time.Time: <<>> is the nil *time.Time, otherwise                        *)
(* <<day of March 2025, second of the day, tenths of a second>>.           *)
(***************************************************************************)
NilTime == <<>>

\* time.Parse(time.RFC3339, s): accepts a fractional second although the
\* layout has none
TimeParse(s) ==
    CASE s = "2025-03-10T00:00:00Z"   -> [ok |-> TRUE, t |-> <<10, 0, 0>>]
      [] s = "2025-03-12T09:30:00Z"   -> [ok |-> TRUE, t |-> <<12, 34200, 0>>]
      [] s = "2025-03-12T09:30:00.5Z" -> [ok |-> TRUE, t |-> <<12, 34200, 5>>]
      [] OTHER                        -> [ok |-> FALSE, t |-> NilTime]

\* t.Format(time.RFC3339): the layout "2006-01-02T15:04:05Z07:00" prints no
\* fractional second
TimeFormatRFC3339(t) ==
    CASE t[1] = 10 /\ t[2] = 0     -> "2025-03-10T00:00:00Z"
      [] t[1] = 12 /\ t[2] = 34200 -> "2025-03-12T09:30:00Z"
      [] OTHER                     -> "0001-01-01T00:00:00Z"

\* t.AddDate(0, 0, days)
AddDate(t, days) == <<t[1] + days, t[2], t[3]>>

\* t.Format("2006-01-02")
DateFormat(t) ==
    CASE t[1] = 10 -> "2025-03-10"
      [] t[1] = 11 -> "2025-03-11"
      [] t[1] = 12 -> "2025-03-12"
      [] t[1] = 13 -> "2025-03-13"
      [] OTHER     -> "0001-01-01"

(***************************************************************************)
(* models.Card and the payload                                             *)
(***************************************************************************)
ZeroCard ==
    [ID |-> "", Name |-> "", DueDate |-> NilTime, URL |-> "", BoardID |-> "",
     Archived |-> FALSE, EventID |-> ""]

\* the short link Trello gives a card
ShortLinkOf(id) ==
    CASE id = "t1" -> "sl1"
      [] id = "t2" -> "sl2"
      [] OTHER     -> "sl"

CardData(id, nm, due, cl) ==
    [ID |-> id, Name |-> nm, Due |-> due, ShortLink |-> ShortLinkOf(id),
     Closed |-> cl]

BoardOf(nm) == IF nm = "Ship release"
               THEN [ID |-> "b1", Name |-> "Eng"]
               ELSE [ID |-> "b2", Name |-> ""]

\* the notifications delivered: open and closed card updates of both tasks,
\* an update without a card id, and an action of another type
TrelloWebhookPayload ==
    { [Type |-> "updateCard", Card |-> CardData(id, nm, due, FALSE),
       Board |-> BoardOf(nm)] :
        id \in TaskIds, nm \in CardNames, due \in DueStrings }
    \cup
    { [Type |-> "updateCard", Card |-> CardData(id, "Fix", due, TRUE),
       Board |-> BoardOf("Fix")] :
        id \in TaskIds, due \in {"", "2025-03-10T00:00:00Z"} }
    \cup
    { [Type |-> "updateCard",
       Card |-> CardData("", "Fix", "2025-03-10T00:00:00Z", FALSE),
       Board |-> BoardOf("Fix")],
      [Type |-> "createCard",
       Card |-> CardData("t1", "Fix", "2025-03-10T00:00:00Z", FALSE),
       Board |-> BoardOf("Fix")] }

NoPayload ==
    [Type |-> "",
     Card |-> [ID |-> "", Name |-> "", Due |-> "", ShortLink |-> "",
               Closed |-> FALSE],
     Board |-> [ID |-> "", Name |-> ""]]

EmptyStore == [k \in {} |-> ZeroCard]

(***************************************************************************)
(* integrations.CalendarClient.  `resp` is what the remote answers to the  *)
(* one network call of the operation: "ok" or "error" (network failure or  *)
(* 5xx).  An event that is not live answers 404.  Every operation issues   *)
(* its request with a single Do(): `attempts` counts how often.            *)
(***************************************************************************)
RemoteResponses == {"ok", "error"}

LiveEvent(evs, eventID) ==
    \E i \in 1..Len(evs) : evs[i].Id = eventID /\ evs[i].Live

\* variant of EventOf: the all-day event ends on the day it starts
EventOf_endsSameDay(c, eventID) ==
    [Id |-> eventID,
     Summary |-> c.Name,
     Description |-> "Trello Card: " \o c.URL,
     Start |-> DateFormat(c.DueDate),
     End |-> DateFormat(c.DueDate),
     Live |-> TRUE]

\* the calendar.Event both CreateEvent and UpdateEvent build from the card
EventOf(c, eventID) ==
    [Id |-> eventID,
     Summary |-> c.Name,
     Description |-> "Trello Card: " \o c.URL,
     Start |-> DateFormat(c.DueDate),
     End |-> DateFormat(AddDate(c.DueDate, 1)),
     Live |-> TRUE]

CreateEvent(evs, c, resp) ==
    IF c.DueDate = NilTime
    THEN [events |-> evs, Id |-> "", err |-> TRUE, outcome |-> "noDueDate", attempts |-> 0]
    ELSE IF resp = "ok"
    THEN [events |-> Append(evs, EventOf(c, EventName[Len(evs) + 1])),
          Id |-> EventName[Len(evs) + 1], err |-> FALSE, outcome |-> "ok", attempts |-> 1]
    ELSE [events |-> evs, Id |-> "", err |-> TRUE, outcome |-> "error", attempts |-> 1]

\* variant of UpdateEvent: the update is sent as the insert of a new event
UpdateEvent_insertsCopy(evs, c, eventID, resp) ==
    IF c.DueDate = NilTime
    THEN [events |-> evs, Id |-> "", err |-> TRUE, outcome |-> "noDueDate", attempts |-> 0]
    ELSE IF ~LiveEvent(evs, eventID)
    THEN [events |-> evs, Id |-> "", err |-> TRUE, outcome |-> "notFound", attempts |-> 1]
    ELSE IF resp = "ok"
    THEN [events |-> Append(evs, EventOf(c, EventName[Len(evs) + 1])),
          Id |-> EventName[Len(evs) + 1], err |-> FALSE, outcome |-> "ok", attempts |-> 1]
    ELSE [events |-> evs, Id |-> "", err |-> TRUE, outcome |-> "error", attempts |-> 1]

UpdateEvent(evs, c, eventID, resp) ==
    IF c.DueDate = NilTime
    THEN [events |-> evs, Id |-> "", err |-> TRUE, outcome |-> "noDueDate", attempts |-> 0]
    ELSE IF ~LiveEvent(evs, eventID)
    THEN \* Events.Get fails
         [events |-> evs, Id |-> "", err |-> TRUE, outcome |-> "notFound", attempts |-> 1]
    ELSE IF resp = "ok"
    THEN [events |-> [i \in 1..Len(evs) |->
                        IF evs[i].Id = eventID THEN EventOf(c, eventID)
                        ELSE evs[i]],
          Id |-> eventID, err |-> FALSE, outcome |-> "ok", attempts |-> 1]
    ELSE [events |-> evs, Id |-> "", err |-> TRUE, outcome |-> "error", attempts |-> 1]

\* variant of DeleteEvent: a 404 from the remote is returned as an error
DeleteEvent_notFoundIsError(evs, eventID, resp) ==
    IF resp = "ok"
    THEN IF LiveEvent(evs, eventID)
         THEN [events |-> [i \in 1..Len(evs) |->
                             IF evs[i].Id = eventID
                             THEN [evs[i] EXCEPT !.Live = FALSE]
                             ELSE evs[i]],
               err |-> FALSE, outcome |-> "ok", attempts |-> 1]
         ELSE [events |-> evs, err |-> TRUE, outcome |-> "notFound", attempts |-> 1]
    ELSE [events |-> evs, err |-> TRUE, outcome |-> "error", attempts |-> 1]

DeleteEvent(evs, eventID, resp) ==
    IF resp = "ok"
    THEN IF LiveEvent(evs, eventID)
         THEN [events |-> [i \in 1..Len(evs) |->
                             IF evs[i].Id = eventID
                             THEN [evs[i] EXCEPT !.Live = FALSE]
                             ELSE evs[i]],
               err |-> FALSE, outcome |-> "ok", attempts |-> 1]
         ELSE \* googleapi.Error with Code 404 is swallowed
              [events |-> evs, err |-> FALSE, outcome |-> "notFound", attempts |-> 1]
    ELSE [events |-> evs, err |-> TRUE, outcome |-> "error", attempts |-> 1]

(***************************************************************************)
(* The pass works on a record s = [card, events, calls, linked, err]:      *)
(* the local card, the remote calendar, the calls issued so far, the       *)
(* create/update/delete history per task, and whether the step returned an *)
(* error.                                                                  *)
(***************************************************************************)
Call(op, eventID, r) ==
    [op |-> op, eventID |-> eventID, outcome |-> r.outcome, err |-> r.err,
     attempts |-> r.attempts]

Unlink(lk, eventID) == [t \in TaskIds |-> IF lk[t] = eventID THEN "" ELSE lk[t]]

Link(lk, id, eventID) ==
    [t \in TaskIds |-> IF t = id THEN eventID ELSE lk[t]]

\* []rune(boardName)[0]
FirstRune(boardName) ==
    CASE boardName = "Eng" -> "E"
      [] OTHER             -> ""

\* variant of syncCalendarEvent: a failed create/update is logged and the pass
\* goes on to save (as the handler did before errors were propagated)
syncCalendarEvent_swallowCallError(s, incoming, boardName, boardID, resp) ==
    IF s.card.Archived THEN [s EXCEPT !.err = FALSE]
    ELSE
    LET parsed == TimeParse(incoming.Due) IN
    IF ~parsed.ok THEN [s EXCEPT !.err = TRUE]
    ELSE
    LET boardPrefix == IF boardName # "" THEN FirstRune(boardName) ELSE ""
        prefixedName == "[" \o boardPrefix \o "] " \o incoming.Name
        c == [s.card EXCEPT !.ID = incoming.ID,
                            !.Name = prefixedName,
                            !.DueDate = parsed.t,
                            !.URL = "https://trello.com/c/" \o incoming.ShortLink,
                            !.BoardID = boardID]
        r == IF c.EventID # "" THEN UpdateEvent(s.events, c, c.EventID, resp)
             ELSE CreateEvent(s.events, c, resp)
    IN
    [card |-> IF r.err THEN c ELSE [c EXCEPT !.EventID = r.Id],
     events |-> r.events,
     calls |-> Append(s.calls,
                      IF c.EventID # ""
                      THEN Call("UpdateEvent", c.EventID, r)
                      ELSE Call("CreateEvent", r.Id, r)),
     linked |-> IF r.err THEN s.linked ELSE Link(s.linked, c.ID, r.Id),
     err |-> FALSE]

\* variant of syncCalendarEvent: an unparseable due date is skipped instead of
\* being returned as an error
syncCalendarEvent_ignoreParseError(s, incoming, boardName, boardID, resp) ==
    IF s.card.Archived \/ ~TimeParse(incoming.Due).ok
    THEN [s EXCEPT !.err = FALSE]
    ELSE
    LET parsed == TimeParse(incoming.Due)
        boardPrefix == IF boardName # "" THEN FirstRune(boardName) ELSE ""
        prefixedName == "[" \o boardPrefix \o "] " \o incoming.Name
        c == [s.card EXCEPT !.ID = incoming.ID,
                            !.Name = prefixedName,
                            !.DueDate = parsed.t,
                            !.URL = "https://trello.com/c/" \o incoming.ShortLink,
                            !.BoardID = boardID]
        r == IF c.EventID # "" THEN UpdateEvent(s.events, c, c.EventID, resp)
             ELSE CreateEvent(s.events, c, resp)
    IN
    [card |-> IF r.err THEN c ELSE [c EXCEPT !.EventID = r.Id],
     events |-> r.events,
     calls |-> Append(s.calls,
                      IF c.EventID # ""
                      THEN Call("UpdateEvent", c.EventID, r)
                      ELSE Call("CreateEvent", r.Id, r)),
     linked |-> IF r.err THEN s.linked ELSE Link(s.linked, c.ID, r.Id),
     err |-> r.err]

\* variant of syncCalendarEvent: when the update fails a new event is created
\* in its place
syncCalendarEvent_recreateOnFetchFailure(s, incoming, boardName, boardID, resp) ==
    IF s.card.Archived THEN [s EXCEPT !.err = FALSE]
    ELSE
    LET parsed == TimeParse(incoming.Due) IN
    IF ~parsed.ok THEN [s EXCEPT !.err = TRUE]
    ELSE
    LET boardPrefix == IF boardName # "" THEN FirstRune(boardName) ELSE ""
        prefixedName == "[" \o boardPrefix \o "] " \o incoming.Name
        c == [s.card EXCEPT !.ID = incoming.ID,
                            !.Name = prefixedName,
                            !.DueDate = parsed.t,
                            !.URL = "https://trello.com/c/" \o incoming.ShortLink,
                            !.BoardID = boardID]
        u == UpdateEvent(s.events, c, c.EventID, resp)
    IN
    IF c.EventID # "" /\ ~u.err
    THEN [card |-> [c EXCEPT !.EventID = u.Id],
          events |-> u.events,
          calls |-> Append(s.calls, Call("UpdateEvent", c.EventID, u)),
          linked |-> Link(s.linked, c.ID, u.Id),
          err |-> FALSE]
    ELSE LET r == CreateEvent(s.events, c, resp)
             sofar == IF c.EventID # ""
                      THEN Append(s.calls, Call("UpdateEvent", c.EventID, u))
                      ELSE s.calls
         IN
         [card |-> IF r.err THEN c ELSE [c EXCEPT !.EventID = r.Id],
          events |-> r.events,
          calls |-> Append(sofar, Call("CreateEvent", r.Id, r)),
          linked |-> IF r.err THEN s.linked ELSE Link(s.linked, c.ID, r.Id),
          err |-> r.err]

\* variant of syncCalendarEvent: a new event is created whether or not the
\* card has one
syncCalendarEvent_alwaysCreate(s, incoming, boardName, boardID, resp) ==
    IF s.card.Archived THEN [s EXCEPT !.err = FALSE]
    ELSE
    LET parsed == TimeParse(incoming.Due) IN
    IF ~parsed.ok THEN [s EXCEPT !.err = TRUE]
    ELSE
    LET boardPrefix == IF boardName # "" THEN FirstRune(boardName) ELSE ""
        prefixedName == "[" \o boardPrefix \o "] " \o incoming.Name
        c == [s.card EXCEPT !.ID = incoming.ID,
                            !.Name = prefixedName,
                            !.DueDate = parsed.t,
                            !.URL = "https://trello.com/c/" \o incoming.ShortLink,
                            !.BoardID = boardID]
        r == CreateEvent(s.events, c, resp)
    IN
    [card |-> IF r.err THEN c ELSE [c EXCEPT !.EventID = r.Id],
     events |-> r.events,
     calls |-> Append(s.calls, Call("CreateEvent", r.Id, r)),
     linked |-> IF r.err THEN s.linked ELSE Link(s.linked, c.ID, r.Id),
     err |-> r.err]

syncCalendarEvent(s, incoming, boardName, boardID, resp) ==
    IF s.card.Archived THEN [s EXCEPT !.err = FALSE]
    ELSE
    LET parsed == TimeParse(incoming.Due) IN
    IF ~parsed.ok THEN [s EXCEPT !.err = TRUE]
    ELSE
    LET boardPrefix == IF boardName # "" THEN FirstRune(boardName) ELSE ""
        prefixedName == "[" \o boardPrefix \o "] " \o incoming.Name
        c == [s.card EXCEPT !.ID = incoming.ID,
                            !.Name = prefixedName,
                            !.DueDate = parsed.t,
                            !.URL = "https://trello.com/c/" \o incoming.ShortLink,
                            !.BoardID = boardID]
    IN
    IF c.EventID # ""
    THEN LET r == UpdateEvent(s.events, c, c.EventID, resp) IN
         [card |-> IF r.err THEN c ELSE [c EXCEPT !.EventID = r.Id],
          events |-> r.events,
          calls |-> Append(s.calls, Call("UpdateEvent", c.EventID, r)),
          linked |-> IF r.err THEN s.linked ELSE Link(s.linked, c.ID, r.Id),
          err |-> r.err]
    ELSE LET r == CreateEvent(s.events, c, resp) IN
         [card |-> IF r.err THEN c ELSE [c EXCEPT !.EventID = r.Id],
          events |-> r.events,
          calls |-> Append(s.calls, Call("CreateEvent", r.Id, r)),
          linked |-> IF r.err THEN s.linked ELSE Link(s.linked, c.ID, r.Id),
          err |-> r.err]

deleteCalendarEvent(s, resp) ==
    IF s.card.EventID = "" THEN [s EXCEPT !.err = FALSE]
    ELSE LET r == DeleteEvent(s.events, s.card.EventID, resp) IN
         [card |-> [s.card EXCEPT !.EventID = "", !.DueDate = NilTime],
          events |-> r.events,
          calls |-> Append(s.calls, Call("DeleteEvent", s.card.EventID, r)),
          linked |-> Unlink(s.linked, s.card.EventID),
          err |-> FALSE]

\* variant of handleArchiving: the event id survives archiving
handleArchiving_keepEventID(s, incoming, resp) ==
    IF incoming.Closed
    THEN IF s.card.EventID # ""
         THEN LET r == DeleteEvent(s.events, s.card.EventID, resp) IN
              [card |-> [s.card EXCEPT !.Archived = TRUE],
               events |-> r.events,
               calls |-> Append(s.calls,
                                Call("DeleteEvent", s.card.EventID, r)),
               linked |-> Unlink(s.linked, s.card.EventID),
               err |-> FALSE]
         ELSE [s EXCEPT !.card.Archived = TRUE]
    ELSE [s EXCEPT !.card.Archived = FALSE]

\* variant of handleArchiving: a failed delete aborts the pass
handleArchiving_fatalDelete(s, incoming, resp) ==
    IF incoming.Closed
    THEN IF s.card.EventID # ""
         THEN LET r == DeleteEvent(s.events, s.card.EventID, resp) IN
              [card |-> [s.card EXCEPT !.Archived = TRUE, !.EventID = ""],
               events |-> r.events,
               calls |-> Append(s.calls,
                                Call("DeleteEvent", s.card.EventID, r)),
               linked |-> Unlink(s.linked, s.card.EventID),
               err |-> r.err]
         ELSE [s EXCEPT !.card.Archived = TRUE]
    ELSE [s EXCEPT !.card.Archived = FALSE]

\* variant of handleArchiving: the delete is issued without looking at EventID
handleArchiving_alwaysDelete(s, incoming, resp) ==
    IF incoming.Closed
    THEN LET r == DeleteEvent(s.events, s.card.EventID, resp) IN
         [card |-> [s.card EXCEPT !.Archived = TRUE, !.EventID = ""],
          events |-> r.events,
          calls |-> Append(s.calls,
                           Call("DeleteEvent", s.card.EventID, r)),
          linked |-> Unlink(s.linked, s.card.EventID),
          err |-> FALSE]
    ELSE [s EXCEPT !.card.Archived = FALSE]

\* variant of handleArchiving: a closed card's event is deleted but the card
\* is not marked archived
handleArchiving_deleteOnly(s, incoming, resp) ==
    IF incoming.Closed
    THEN IF s.card.EventID # ""
         THEN LET r == DeleteEvent(s.events, s.card.EventID, resp) IN
              [card |-> [s.card EXCEPT !.EventID = ""],
               events |-> r.events,
               calls |-> Append(s.calls,
                                Call("DeleteEvent", s.card.EventID, r)),
               linked |-> Unlink(s.linked, s.card.EventID),
               err |-> FALSE]
         ELSE s
    ELSE [s EXCEPT !.card.Archived = FALSE]

\* variant of handleArchiving: an open notification leaves Archived as loaded
handleArchiving_staysArchived(s, incoming, resp) ==
    IF incoming.Closed
    THEN IF s.card.EventID # ""
         THEN LET r == DeleteEvent(s.events, s.card.EventID, resp) IN
              [card |-> [s.card EXCEPT !.Archived = TRUE, !.EventID = ""],
               events |-> r.events,
               calls |-> Append(s.calls,
                                Call("DeleteEvent", s.card.EventID, r)),
               linked |-> Unlink(s.linked, s.card.EventID),
               err |-> FALSE]
         ELSE [s EXCEPT !.card.Archived = TRUE]
    ELSE s

\* variant of handleArchiving: the event id is cleared without a DeleteEvent
handleArchiving_forgetEvent(s, incoming, resp) ==
    IF incoming.Closed
    THEN [s EXCEPT !.card.Archived = TRUE, !.card.EventID = ""]
    ELSE [s EXCEPT !.card.Archived = FALSE]

\* processCardUpdate, "Handle archiving"
handleArchiving(s, incoming, resp) ==
    IF incoming.Closed
    THEN IF s.card.EventID # ""
         THEN LET r == DeleteEvent(s.events, s.card.EventID, resp) IN
              [card |-> [s.card EXCEPT !.Archived = TRUE, !.EventID = ""],
               events |-> r.events,
               calls |-> Append(s.calls,
                                Call("DeleteEvent", s.card.EventID, r)),
               linked |-> Unlink(s.linked, s.card.EventID),
               err |-> FALSE]
         ELSE [s EXCEPT !.card.Archived = TRUE]
    ELSE [s EXCEPT !.card.Archived = FALSE]

\* variant of handleDueDate: without the "keeping existing event" branch
handleDueDate_noKeep(s, incoming, boardName, boardID, resp) ==
    IF s.card.Archived THEN s
    ELSE IF incoming.Due # ""
    THEN syncCalendarEvent(s, incoming, boardName, boardID, resp)
    ELSE IF s.card.DueDate # NilTime /\ s.card.EventID = ""
    THEN LET recreateIncoming ==
                 [incoming EXCEPT !.Due = TimeFormatRFC3339(s.card.DueDate)]
         IN syncCalendarEvent(s, recreateIncoming, boardName, boardID, resp)
    ELSE deleteCalendarEvent(s, resp)

\* variant of handleDueDate: the "keeping existing event" branch drops the
\* stored due date
handleDueDate_keepClearsDue(s, incoming, boardName, boardID, resp) ==
    IF s.card.Archived THEN s
    ELSE IF incoming.Due # ""
    THEN syncCalendarEvent(s, incoming, boardName, boardID, resp)
    ELSE IF s.card.DueDate # NilTime /\ s.card.EventID = ""
    THEN LET recreateIncoming ==
                 [incoming EXCEPT !.Due = TimeFormatRFC3339(s.card.DueDate)]
         IN syncCalendarEvent(s, recreateIncoming, boardName, boardID, resp)
    ELSE IF s.card.DueDate # NilTime /\ s.card.EventID # ""
    THEN [s EXCEPT !.card.DueDate = NilTime]
    ELSE deleteCalendarEvent(s, resp)

\* processCardUpdate, "Skip sync for archived cards" / due-date decision
handleDueDate(s, incoming, boardName, boardID, resp) ==
    IF s.card.Archived THEN s
    ELSE IF incoming.Due # ""
    THEN syncCalendarEvent(s, incoming, boardName, boardID, resp)
    ELSE IF s.card.DueDate # NilTime /\ s.card.EventID = ""
    THEN LET recreateIncoming ==
                 [incoming EXCEPT !.Due = TimeFormatRFC3339(s.card.DueDate)]
         IN syncCalendarEvent(s, recreateIncoming, boardName, boardID, resp)
    ELSE IF s.card.DueDate # NilTime /\ s.card.EventID # ""
    THEN s
    ELSE deleteCalendarEvent(s, resp)

(***************************************************************************)
(* The cards table behind gorm.                                            *)
(***************************************************************************)
\* DB.First(&card, "id = ?", id): the row, or the untouched zero value with
\* gorm.ErrRecordNotFound
dbFirst(st, id) == IF id \in DOMAIN st THEN st[id] ELSE ZeroCard

\* DB.Save(&card): a zero primary key makes gorm INSERT (which the primary
\* key constraint rejects when the row "" exists); otherwise it updates
\* every column of the row, inserting it when no row was updated.
dbSave(st, c) ==
    IF c.ID = "" /\ "" \in DOMAIN st
    THEN [store |-> st, err |-> TRUE]
    ELSE [store |-> [k \in DOMAIN st \cup {c.ID} |->
                        IF k = c.ID THEN c ELSE st[k]],
          err |-> FALSE]

(***************************************************************************)
(* Initial state of the handler: empty table, empty calendar, every worker  *)
(* idle.                                                                   *)
(***************************************************************************)
HandlerInit ==
    /\ store = EmptyStore
    /\ events = <<>>
    /\ pc = [w \in Workers |-> "idle"]
    /\ payload = [w \in Workers |-> NoPayload]
    /\ card = [w \in Workers |-> ZeroCard]
    /\ calls = [w \in Workers |-> <<>>]
    /\ dbops = [w \in Workers |-> <<>>]
    /\ result = [w \in Workers |-> "none"]
    /\ status = [w \in Workers |-> 0]
    /\ before = [w \in Workers |-> EmptyStore]
    /\ linked = [t \in TaskIds |-> ""]
    /\ passes = 0
    /\ overlapped = FALSE
    /\ health = <<>>

(***************************************************************************)
(* TrelloWebhookHandler: a POST with a JSON body has been bound to         *)
(* `payload`.  Notifications are delivered one at a time; the goroutines   *)
(* serving requests are interchangeable, so a request is given to a fixed  *)
(* choice among the idle ones.                                             *)
(***************************************************************************)
Receive(w, p) ==
    /\ exit = "running" /\ accepting
    /\ pc[w] = "idle"
    /\ w = CHOOSE v \in Workers : pc[v] = "idle"
    /\ \A v \in Workers : pc[v] = "idle"
    /\ passes < MaxPasses
    /\ passes' = passes + 1
    /\ payload' = [payload EXCEPT ![w] = p]
    /\ card' = [card EXCEPT ![w] = ZeroCard]
    /\ calls' = [calls EXCEPT ![w] = <<>>]
    /\ dbops' = [dbops EXCEPT ![w] = <<>>]
    /\ result' = [result EXCEPT ![w] = "none"]
    /\ before' = [before EXCEPT ![w] = store]
    /\ pc' = [pc EXCEPT ![w] = "received"]
    /\ UNCHANGED <<store, events, status, linked>>
    /\ UNCHANGED mainVars
    /\ UNCHANGED auxVars

\* TrelloWebhookHandler as net/http runs it: every request in a goroutine of
\* its own, whether or not another request is being served
ReceiveConcurrent(w, p) ==
    /\ exit = "running" /\ accepting
    /\ pc[w] = "idle"
    /\ w = CHOOSE v \in Workers : pc[v] = "idle"
    /\ passes < MaxPasses
    /\ passes' = passes + 1
    /\ payload' = [payload EXCEPT ![w] = p]
    /\ card' = [card EXCEPT ![w] = ZeroCard]
    /\ calls' = [calls EXCEPT ![w] = <<>>]
    /\ dbops' = [dbops EXCEPT ![w] = <<>>]
    /\ result' = [result EXCEPT ![w] = "none"]
    /\ before' = [before EXCEPT ![w] = store]
    /\ pc' = [pc EXCEPT ![w] = "received"]
    /\ overlapped' = (overlapped \/
                         \E v \in Workers \ {w} :
                             /\ pc[v] \in {"received", "loaded", "reconciled"}
                             /\ payload[v].Card.ID = p.Card.ID)
    /\ UNCHANGED <<store, events, status, linked, health>>
    /\ UNCHANGED mainVars

\* HealthCheckHandler: the c.JSON calls it makes, in order
HealthWrites(dbOk, calClientNil) ==
    LET database == IF dbOk THEN <<>>
                    ELSE <<[code |-> 503, status |-> "unhealthy",
                            error |-> "database"]>>
    IN IF calClientNil
       THEN Append(database, [code |-> 503, status |-> "unhealthy",
                              error |-> "google calendar client"])
       ELSE Append(database, [code |-> 200, status |-> "healthy", error |-> ""])

\* GET /api/health; main ends with Fatal when NewCalendarClient fails, so the
\* handler's CalClient is never nil.  Requests are delivered one at a time.
HealthCheckHandler(dbOk) ==
    /\ exit = "running" /\ accepting
    /\ dbOk => dbOpen
    /\ \A w \in Workers : pc[w] = "idle"
    /\ health' = HealthWrites(dbOk, FALSE)
    /\ UNCHANGED overlapped
    /\ UNCHANGED handlerVars
    /\ UNCHANGED mainVars

\* variant of Load: the card id is not checked before the lookup
Load_noIdCheck(w, dbOk) ==
    /\ exit = "running" /\ (dbOk => dbOpen)
    /\ pc[w] = "received"
    /\ LET incomingCardData == payload[w].Card IN
       IF payload[w].Type # "updateCard"
       THEN /\ result' = [result EXCEPT ![w] = "ok"]
            /\ pc' = [pc EXCEPT ![w] = "done"]
            /\ UNCHANGED <<card, dbops>>
       ELSE IF ~dbOk
       THEN /\ dbops' = [dbops EXCEPT ![w] = Append(@, "First:error")]
            /\ result' = [result EXCEPT ![w] = "error"]
            /\ pc' = [pc EXCEPT ![w] = "done"]
            /\ UNCHANGED card
       ELSE /\ dbops' = [dbops EXCEPT ![w] = Append(@, "First:ok")]
            /\ card' = [card EXCEPT ![w] = dbFirst(store, incomingCardData.ID)]
            /\ pc' = [pc EXCEPT ![w] = "loaded"]
            /\ UNCHANGED result
    /\ UNCHANGED <<store, events, payload, calls, status, before, linked, passes>>
    /\ UNCHANGED mainVars
    /\ UNCHANGED auxVars

\* processCardUpdate up to and including DB.First
Load(w, dbOk) ==
    /\ exit = "running" /\ (dbOk => dbOpen)
    /\ pc[w] = "received"
    /\ LET incomingCardData == payload[w].Card IN
       IF payload[w].Type # "updateCard" \/ incomingCardData.ID = ""
       THEN /\ result' = [result EXCEPT ![w] = "ok"]
            /\ pc' = [pc EXCEPT ![w] = "done"]
            /\ UNCHANGED <<card, dbops>>
       ELSE IF ~dbOk
       THEN /\ dbops' = [dbops EXCEPT ![w] = Append(@, "First:error")]
            /\ result' = [result EXCEPT ![w] = "error"]
            /\ pc' = [pc EXCEPT ![w] = "done"]
            /\ UNCHANGED card
       ELSE /\ dbops' = [dbops EXCEPT ![w] = Append(@, "First:ok")]
            /\ card' = [card EXCEPT ![w] = dbFirst(store, incomingCardData.ID)]
            /\ pc' = [pc EXCEPT ![w] = "loaded"]
            /\ UNCHANGED result
    /\ UNCHANGED <<store, events, payload, calls, status, before, linked, passes>>
    /\ UNCHANGED mainVars
    /\ UNCHANGED auxVars

\* processCardUpdate from "Handle archiving" to just before DB.Save
reconcile(s, p, resp) ==
    handleDueDate(handleArchiving(s, p.Card, resp),
                  p.Card, p.Board.Name, p.Board.ID, resp)

\* processCardUpdate as a whole, from the table st and the calendar evs, when
\* the calendar and the database answer every call
processCardUpdate(st, evs, lk, p) ==
    IF p.Type # "updateCard" \/ p.Card.ID = ""
    THEN [store |-> st, events |-> evs, linked |-> lk, calls |-> <<>>,
          err |-> FALSE]
    ELSE LET s == reconcile([card |-> dbFirst(st, p.Card.ID), events |-> evs,
                             calls |-> <<>>, linked |-> lk, err |-> FALSE],
                            p, "ok")
             r == dbSave(st, s.card)
         IN [store |-> IF s.err THEN st ELSE r.store,
             events |-> s.events, linked |-> s.linked, calls |-> s.calls,
             err |-> s.err \/ r.err]

Reconcile(w, resp) ==
    /\ exit = "running"
    /\ pc[w] = "loaded"
    /\ LET s == reconcile([card |-> card[w], events |-> events,
                           calls |-> calls[w], linked |-> linked, err |-> FALSE],
                          payload[w], resp)
       IN /\ card' = [card EXCEPT ![w] = s.card]
          /\ events' = s.events
          /\ calls' = [calls EXCEPT ![w] = s.calls]
          /\ linked' = s.linked
          /\ IF s.err
             THEN /\ result' = [result EXCEPT ![w] = "error"]
                  /\ pc' = [pc EXCEPT ![w] = "done"]
             ELSE /\ pc' = [pc EXCEPT ![w] = "reconciled"]
                  /\ UNCHANGED result
    /\ UNCHANGED <<store, payload, dbops, status, before, passes>>
    /\ UNCHANGED mainVars
    /\ UNCHANGED auxVars

\* processCardUpdate, the final DB.Save
Save(w, dbOk) ==
    /\ exit = "running" /\ (dbOk => dbOpen)
    /\ pc[w] = "reconciled"
    /\ LET r == dbSave(store, card[w]) IN
       IF dbOk /\ ~r.err
       THEN /\ store' = r.store
            /\ dbops' = [dbops EXCEPT ![w] = Append(@, "Save:ok")]
            /\ result' = [result EXCEPT ![w] = "ok"]
       ELSE /\ dbops' = [dbops EXCEPT ![w] = Append(@, "Save:error")]
            /\ result' = [result EXCEPT ![w] = "error"]
            /\ UNCHANGED store
    /\ pc' = [pc EXCEPT ![w] = "done"]
    /\ UNCHANGED <<events, payload, card, calls, status, before, linked, passes>>
    /\ UNCHANGED mainVars
    /\ UNCHANGED auxVars

\* variant of Respond: the handler answers 200 whatever the pass returned
Respond_alwaysOK(w) ==
    /\ exit = "running"
    /\ pc[w] = "done"
    /\ status' = [status EXCEPT ![w] = 200]
    /\ pc' = [pc EXCEPT ![w] = "idle"]
    /\ payload' = [payload EXCEPT ![w] = NoPayload]
    /\ card' = [card EXCEPT ![w] = ZeroCard]
    /\ calls' = [calls EXCEPT ![w] = <<>>]
    /\ dbops' = [dbops EXCEPT ![w] = <<>>]
    /\ result' = [result EXCEPT ![w] = "none"]
    /\ before' = [before EXCEPT ![w] = EmptyStore]
    /\ UNCHANGED <<store, events, linked, passes>>
    /\ UNCHANGED mainVars
    /\ UNCHANGED auxVars

\* TrelloWebhookHandler answers the request
Respond(w) ==
    /\ exit = "running"
    /\ pc[w] = "done"
    /\ status' = [status EXCEPT ![w] = IF result[w] = "error" THEN 500 ELSE 200]
    /\ pc' = [pc EXCEPT ![w] = "idle"]
    /\ payload' = [payload EXCEPT ![w] = NoPayload]
    /\ card' = [card EXCEPT ![w] = ZeroCard]
    /\ calls' = [calls EXCEPT ![w] = <<>>]
    /\ dbops' = [dbops EXCEPT ![w] = <<>>]
    /\ result' = [result EXCEPT ![w] = "none"]
    /\ before' = [before EXCEPT ![w] = EmptyStore]
    /\ UNCHANGED <<store, events, linked, passes>>
    /\ UNCHANGED mainVars
    /\ UNCHANGED auxVars

(***************************************************************************)
(* Process lifecycle (main): webhook registration at startup, signal        *)
(* handling and cleanup.                                                    *)
(***************************************************************************)

\* trello.board_ids, in configuration order
boardIDs == <<"b1", "b2">>

\* the id Trello answers when a webhook is created for a board
WebhookIDOf(boardId) == IF boardId = "b1" THEN "h1" ELSE "h2"

AllHooks == {WebhookIDOf(boardIDs[i]) : i \in 1..Len(boardIDs)}

\* retry.Attempts(3)
RetryAttempts == 3

\* make(chan os.Signal, 2)
SigChCapacity == 2

\* what one execution of the function wrapped by retry.Do can meet
RegisterHTTP == {"requestError", "networkError", "status5xx", "status4xx",
                 "badBody", "ok"}
DeleteHTTP == {"requestError", "networkError", "status5xx", "status4xx", "ok"}

\* RegisterWebhook, the wrapped function: how each outcome is returned
RegisterOutcome(http) ==
    CASE http = "requestError" -> "terminal"
      [] http = "networkError" -> "retryable"
      [] http = "status5xx"    -> "retryable"
      [] http = "status4xx"    -> "terminal"
      [] http = "badBody"      -> "terminal"
      [] http = "ok"           -> "success"

\* DeleteWebhook, the wrapped function: how each outcome is returned
DeleteOutcome(http) ==
    CASE http = "requestError" -> "terminal"
      [] http = "networkError" -> "retryable"
      [] http = "status5xx"    -> "retryable"
      [] http = "status4xx"    -> "terminal"
      [] http = "ok"           -> "success"

\* variant of RetryDecision: an Unrecoverable error is retried like any other
RetryDecision_retriesUnrecoverable(tries) ==
    LET n == Len(tries) IN
    IF tries[n] = "success" THEN "ok"
    ELSE IF n >= RetryAttempts THEN "error"
    ELSE "pending"

\* retry.Do after the attempts in `tries`: return nil, return the error, or
\* go round again
RetryDecision(tries) ==
    LET n == Len(tries) IN
    IF tries[n] = "success" THEN "ok"
    ELSE IF tries[n] = "terminal" THEN "error"
    ELSE IF n >= RetryAttempts THEN "error"
    ELSE "pending"

NoRetry == [op |-> "none", arg |-> "", tries |-> <<>>, returned |-> "pending"]

Pending(op) == retry.op = op /\ retry.returned = "pending"

\* one more execution of the wrapped function, for a new call or a running one
Attempt(op, arg, outcome) ==
    LET tries == IF Pending(op) THEN Append(retry.tries, outcome)
                 ELSE <<outcome>>
    IN [op |-> op, arg |-> arg, tries |-> tries,
        returned |-> RetryDecision(tries)]

\* variant of CleanupOrder: the database is closed before the webhooks are
\* deleted
CleanupOrder_closeStoreFirst ==
    <<"closeWorkers", "shutdown", "closeDB", "deregister", "closeDone">>

\* the statements of cleanup, in program order
CleanupOrder ==
    <<"closeWorkers", "shutdown", "deregister", "closeDB", "closeDone">>

StepIndex(step) == CHOOSE i \in 1..Len(CleanupOrder) : CleanupOrder[i] = step

\* where the signal goroutine goes after a step of cleanup
NextStep(step) ==
    IF StepIndex(step) = Len(CleanupOrder) THEN "spawn"
    ELSE CleanupOrder[StepIndex(step) + 1]

\* the process as the handler runs in it: every board registered, no signal
Serving ==
    /\ mainpc = "wait"
    /\ regIdx = Len(boardIDs) + 1
    /\ webhookIDs = [i \in {boardIDs[j] : j \in 1..Len(boardIDs)} |-> WebhookIDOf(i)]
    /\ hooks = AllHooks
    /\ retry = [op |-> "RegisterWebhook", arg |-> boardIDs[Len(boardIDs)],
                tries |-> <<"success">>, returned |-> "ok"]
    /\ sigCh = 0
    /\ signals = 0
    /\ sigpc = "wait"
    /\ sig2pc = "none"
    /\ accepting = TRUE
    /\ shutdownResult = "none"
    /\ visited = {}
    /\ delCalls = [h \in AllHooks |-> 0]
    /\ delFailed = {}
    /\ dbOpen = TRUE
    /\ done = FALSE
    /\ exit = "running"

\* main just before the registration loop: the database is open and the
\* server goroutine is listening
Starting ==
    /\ mainpc = "register"
    /\ regIdx = 1
    /\ webhookIDs = <<>>
    /\ hooks = {}
    /\ retry = NoRetry
    /\ sigCh = 0
    /\ signals = 0
    /\ sigpc = "wait"
    /\ sig2pc = "none"
    /\ accepting = TRUE
    /\ shutdownResult = "none"
    /\ visited = {}
    /\ delCalls = [h \in AllHooks |-> 0]
    /\ delFailed = {}
    /\ dbOpen = TRUE
    /\ done = FALSE
    /\ exit = "running"

Init == HandlerInit /\ Serving

MainInit == HandlerInit /\ Starting

\* main, the registration loop: one execution of the function RegisterWebhook
\* wraps in retry.Do; zap.L().Fatal when RegisterWebhook returns an error
RegisterAttempt(http) ==
    /\ exit = "running"
    /\ mainpc = "register"
    /\ LET boardId == boardIDs[regIdx]
           r == Attempt("RegisterWebhook", boardId, RegisterOutcome(http))
       IN /\ retry' = r
          /\ IF r.returned = "ok"
             THEN /\ hooks' = hooks \cup {WebhookIDOf(boardId)}
                  /\ webhookIDs' = [b \in DOMAIN webhookIDs \cup {boardId} |->
                                       IF b = boardId THEN WebhookIDOf(boardId)
                                       ELSE webhookIDs[b]]
                  /\ regIdx' = regIdx + 1
                  /\ mainpc' = IF regIdx = Len(boardIDs) THEN "wait"
                               ELSE "register"
                  /\ UNCHANGED exit
             ELSE /\ exit' = IF r.returned = "error" THEN "fatal" ELSE exit
                  /\ UNCHANGED <<hooks, webhookIDs, regIdx, mainpc>>
    /\ UNCHANGED <<sigCh, signals, sigpc, sig2pc, accepting, shutdownResult,
                   visited, delCalls, delFailed, dbOpen, done>>
    /\ UNCHANGED handlerVars
    /\ UNCHANGED auxVars

\* SIGINT or SIGTERM is sent to the process: before signal.Notify it ends the
\* process, after it the signal is buffered in sigCh (dropped when full)
Signal ==
    /\ exit = "running"
    /\ signals < MaxSignals
    /\ signals' = signals + 1
    /\ IF mainpc = "register"
       THEN exit' = "killed" /\ UNCHANGED sigCh
       ELSE sigCh' = (IF sigCh < SigChCapacity THEN sigCh + 1 ELSE sigCh) /\ UNCHANGED exit
    /\ UNCHANGED <<mainpc, regIdx, webhookIDs, hooks, retry, sigpc, sig2pc,
                   accepting, shutdownResult, visited, delCalls, delFailed,
                   dbOpen, done>>
    /\ UNCHANGED handlerVars
    /\ UNCHANGED auxVars

\* the signal goroutine receives from sigCh and enters cleanup
SignalReceived ==
    /\ exit = "running"
    /\ mainpc = "wait"
    /\ sigpc = "wait"
    /\ sigCh > 0
    /\ sigCh' = sigCh - 1
    /\ sigpc' = CleanupOrder[1]
    /\ UNCHANGED <<mainpc, regIdx, webhookIDs, hooks, retry, signals, sig2pc,
                   accepting, shutdownResult, visited, delCalls, delFailed,
                   dbOpen, done, exit>>
    /\ UNCHANGED handlerVars
    /\ UNCHANGED auxVars

\* cleanup: close(apiHandler.Workers)
CloseWorkers ==
    /\ exit = "running"
    /\ sigpc = "closeWorkers"
    /\ sigpc' = NextStep("closeWorkers")
    /\ UNCHANGED <<mainpc, regIdx, webhookIDs, hooks, retry, sigCh, signals,
                   sig2pc, accepting, shutdownResult, visited, delCalls,
                   delFailed, dbOpen, done, exit>>
    /\ UNCHANGED handlerVars
    /\ UNCHANGED auxVars

\* cleanup: srv.Shutdown closes the listeners
ShutdownBegin ==
    /\ exit = "running"
    /\ sigpc = "shutdown"
    /\ accepting
    /\ accepting' = FALSE
    /\ UNCHANGED <<mainpc, regIdx, webhookIDs, hooks, retry, sigCh, signals,
                   sigpc, sig2pc, shutdownResult, visited, delCalls, delFailed,
                   dbOpen, done, exit>>
    /\ UNCHANGED handlerVars
    /\ UNCHANGED auxVars

\* cleanup: srv.Shutdown returns, nil once no request is being served, the
\* context's error if the 10 seconds pass first
ShutdownReturn(timedOut) ==
    /\ exit = "running"
    /\ sigpc = "shutdown"
    /\ ~accepting
    /\ IF timedOut THEN \E w \in Workers : pc[w] # "idle"
                   ELSE \A w \in Workers : pc[w] = "idle"
    /\ shutdownResult' = IF timedOut THEN "timeout" ELSE "graceful"
    /\ sigpc' = NextStep("shutdown")
    /\ UNCHANGED <<mainpc, regIdx, webhookIDs, hooks, retry, sigCh, signals,
                   sig2pc, accepting, visited, delCalls, delFailed, dbOpen,
                   done, exit>>
    /\ UNCHANGED handlerVars
    /\ UNCHANGED auxVars

Registered == {webhookIDs[b] : b \in DOMAIN webhookIDs}

\* variant of DeregisterFinished: the loop is left at the first failed delete
DeregisterFinished_stopOnError ==
    /\ ~Pending("DeleteWebhook")
    /\ (visited = Registered \/ delFailed # {})

\* the range over webhookIDs has run its body for every entry
DeregisterFinished ==
    /\ ~Pending("DeleteWebhook")
    /\ visited = Registered

\* cleanup, the deregistration loop: one execution of the function
\* DeleteWebhook wraps in retry.Do, for the entry the loop is at or, when the
\* previous call has returned, for any entry not yet iterated
DeleteAttempt(webhookID, http) ==
    /\ exit = "running"
    /\ sigpc = "deregister"
    /\ IF Pending("DeleteWebhook") THEN webhookID = retry.arg
       ELSE webhookID \in Registered \ visited
    /\ LET r == Attempt("DeleteWebhook", webhookID, DeleteOutcome(http))
       IN /\ retry' = r
          /\ hooks' = IF r.returned = "ok" THEN hooks \ {webhookID} ELSE hooks
          /\ delFailed' = IF r.returned = "error"
                          THEN delFailed \cup {webhookID} ELSE delFailed
    /\ visited' = visited \cup {webhookID}
    /\ delCalls' = IF Pending("DeleteWebhook") THEN delCalls
                   ELSE [delCalls EXCEPT ![webhookID] = @ + 1]
    /\ UNCHANGED <<mainpc, regIdx, webhookIDs, sigCh, signals, sigpc, sig2pc,
                   accepting, shutdownResult, dbOpen, done, exit>>
    /\ UNCHANGED handlerVars
    /\ UNCHANGED auxVars

\* cleanup: the deregistration loop ends
DeregisterEnd ==
    /\ exit = "running"
    /\ sigpc = "deregister"
    /\ DeregisterFinished
    /\ sigpc' = NextStep("deregister")
    /\ UNCHANGED <<mainpc, regIdx, webhookIDs, hooks, retry, sigCh, signals,
                   sig2pc, accepting, shutdownResult, visited, delCalls,
                   delFailed, dbOpen, done, exit>>
    /\ UNCHANGED handlerVars
    /\ UNCHANGED auxVars

\* cleanup: sqlDB.Close()
CloseDB ==
    /\ exit = "running"
    /\ sigpc = "closeDB"
    /\ dbOpen' = FALSE
    /\ sigpc' = NextStep("closeDB")
    /\ UNCHANGED <<mainpc, regIdx, webhookIDs, hooks, retry, sigCh, signals,
                   sig2pc, accepting, shutdownResult, visited, delCalls,
                   delFailed, done, exit>>
    /\ UNCHANGED handlerVars
    /\ UNCHANGED auxVars

\* cleanup: close(done)
CloseDone ==
    /\ exit = "running"
    /\ sigpc = "closeDone"
    /\ done' = TRUE
    /\ sigpc' = NextStep("closeDone")
    /\ UNCHANGED <<mainpc, regIdx, webhookIDs, hooks, retry, sigCh, signals,
                   sig2pc, accepting, shutdownResult, visited, delCalls,
                   delFailed, dbOpen, exit>>
    /\ UNCHANGED handlerVars
    /\ UNCHANGED auxVars

\* the signal goroutine, after once.Do has returned, starts the goroutine
\* that waits for a second signal
SpawnSecond ==
    /\ exit = "running"
    /\ sigpc = "spawn"
    /\ sig2pc' = "wait"
    /\ sigpc' = "end"
    /\ UNCHANGED <<mainpc, regIdx, webhookIDs, hooks, retry, sigCh, signals,
                   accepting, shutdownResult, visited, delCalls, delFailed,
                   dbOpen, done, exit>>
    /\ UNCHANGED handlerVars
    /\ UNCHANGED auxVars

\* the second-signal goroutine receives from sigCh: os.Exit(1)
SecondSignal ==
    /\ exit = "running"
    /\ sig2pc = "wait"
    /\ sigCh > 0
    /\ sigCh' = sigCh - 1
    /\ exit' = "exit1"
    /\ UNCHANGED <<mainpc, regIdx, webhookIDs, hooks, retry, signals, sigpc,
                   sig2pc, accepting, shutdownResult, visited, delCalls,
                   delFailed, dbOpen, done>>
    /\ UNCHANGED handlerVars
    /\ UNCHANGED auxVars

\* main receives from the closed channel done and returns
MainReturn ==
    /\ exit = "running"
    /\ mainpc = "wait"
    /\ done
    /\ exit' = "returned"
    /\ UNCHANGED <<mainpc, regIdx, webhookIDs, hooks, retry, sigCh, signals,
                   sigpc, sig2pc, accepting, shutdownResult, visited, delCalls,
                   delFailed, dbOpen, done>>
    /\ UNCHANGED handlerVars
    /\ UNCHANGED auxVars

\* the notifications delivered while the lifecycle is explored
MainPayloads ==
    {p \in TrelloWebhookPayload :
        /\ p.Type = "updateCard" /\ p.Card.ID = "t1"
        /\ p.Card.Name = "Ship release"
        /\ p.Card.Due \in {"", "2025-03-10T00:00:00Z"}}

Next ==
    \/ \E w \in Workers, p \in TrelloWebhookPayload : Receive(w, p)
    \/ \E w \in Workers, dbOk \in BOOLEAN : Load(w, dbOk)
    \/ \E w \in Workers, resp \in RemoteResponses : Reconcile(w, resp)
    \/ \E w \in Workers, dbOk \in BOOLEAN : Save(w, dbOk)
    \/ \E w \in Workers : Respond(w)

Spec == Init /\ [][Next]_vars

\* serialized delivery in which every calendar and database call succeeds
OkNext ==
    \/ \E w \in Workers, p \in TrelloWebhookPayload : Receive(w, p)
    \/ \E w \in Workers : Load(w, TRUE)
    \/ \E w \in Workers : Reconcile(w, "ok")
    \/ \E w \in Workers : Save(w, TRUE)
    \/ \E w \in Workers : Respond(w)

OkSpec == Init /\ [][OkNext]_vars

\* the notifications delivered concurrently: updates of one card
ConcPayloads ==
    {p \in TrelloWebhookPayload :
        /\ p.Type = "updateCard" /\ p.Card.ID = "t1" /\ ~p.Card.Closed
        /\ p.Card.Name = "Ship release"
        /\ p.Card.Due \in {"", "2025-03-10T00:00:00Z"}}

\* concurrent delivery in which every calendar and database call succeeds
ConcNext ==
    \/ \E w \in Workers, p \in ConcPayloads : ReceiveConcurrent(w, p)
    \/ \E w \in Workers : Load(w, TRUE)
    \/ \E w \in Workers : Reconcile(w, "ok")
    \/ \E w \in Workers : Save(w, TRUE)
    \/ \E w \in Workers : Respond(w)

ConcSpec == Init /\ [][ConcNext]_vars

\* the whole process, from the registration loop to its exit
MainNext ==
    \/ \E w \in Workers, p \in MainPayloads : Receive(w, p)
    \/ \E w \in Workers, dbOk \in BOOLEAN : Load(w, dbOk)
    \/ \E w \in Workers, resp \in RemoteResponses : Reconcile(w, resp)
    \/ \E w \in Workers, dbOk \in BOOLEAN : Save(w, dbOk)
    \/ \E w \in Workers : Respond(w)
    \/ \E dbOk \in BOOLEAN : HealthCheckHandler(dbOk)
    \/ \E http \in RegisterHTTP : RegisterAttempt(http)
    \/ Signal
    \/ SignalReceived
    \/ CloseWorkers
    \/ ShutdownBegin
    \/ \E timedOut \in BOOLEAN : ShutdownReturn(timedOut)
    \/ \E h \in AllHooks, http \in DeleteHTTP : DeleteAttempt(h, http)
    \/ DeregisterEnd
    \/ CloseDB
    \/ CloseDone
    \/ SpawnSecond
    \/ SecondSignal
    \/ MainReturn

MainSpec == MainInit /\ [][MainNext]_vars

TypeOK ==
    /\ \A k \in DOMAIN store : store[k].ID = k
    /\ passes \in 0..MaxPasses

(***************************************************************************)
(* Vocabulary of the properties.  A pass is looked at when it has returned *)
(* (pc = "done"); under Spec `before` is then the table the pass started   *)
(* from.                                                                   *)
(***************************************************************************)
Done(w) == pc[w] = "done"
Incoming(w) == payload[w].Card
Relevant(w) == payload[w].Type = "updateCard" /\ Incoming(w).ID # ""
Had(w) == Incoming(w).ID \in DOMAIN before[w]
Prev(w) == before[w][Incoming(w).ID]
Has(w) == Incoming(w).ID \in DOMAIN store
Cur(w) == store[Incoming(w).ID]
Upserted(w) == \E i \in 1..Len(dbops[w]) : dbops[w][i] \in {"Save:ok", "Save:error"}
Issued(w, ops, outcomes) ==
    \E i \in 1..Len(calls[w]) :
        calls[w][i].op \in ops /\ calls[w][i].outcome \in outcomes
Failures == {"error", "notFound", "noDueDate"}
Quiescent == \A w \in Workers : pc[w] \in {"idle", "done"}
PersistedEventID(t) == IF t \in DOMAIN store THEN store[t].EventID ELSE ""

(***************************************************************************)
(* C1: every persisted record that is archived has an empty event id.      *)
(***************************************************************************)
C1_ArchivedHasNoEvent ==
    \A k \in DOMAIN store : store[k].Archived => store[k].EventID = ""

\* a committed closed notification for a record that had an event
C1_Witness ==
    \E w \in Workers :
        /\ Done(w) /\ result[w] = "ok" /\ Incoming(w).Closed
        /\ Had(w) /\ Prev(w).EventID # ""
        /\ Has(w) /\ Cur(w).Archived

(***************************************************************************)
(* C2: a committed pass for a "task updated" notification with task id T   *)
(* leaves a record with id T in the store, on first sighting too.          *)
(***************************************************************************)
C2_CommittedPassStoresTaskId ==
    \A w \in Workers :
        (Done(w) /\ Relevant(w) /\ result[w] = "ok")
            => (Has(w) /\ Cur(w).ID = Incoming(w).ID)

(***************************************************************************)
(* C3: between passes, a task's persisted event id is non-empty exactly    *)
(* when it is the id returned by the task's latest successful create or    *)
(* update on which no delete has been attempted since.                     *)
(***************************************************************************)
C3_EventIdIffLiveEventBelieved ==
    Quiescent => \A t \in TaskIds : PersistedEventID(t) = linked[t]

(***************************************************************************)
(* C4: a failed createEvent/updateEvent makes the pass return an error     *)
(* without an upsert; the table is what it was before the pass.            *)
(***************************************************************************)
C4_FailedSyncAbortsWithoutSaving ==
    \A w \in Workers :
        (Done(w) /\ Issued(w, {"CreateEvent", "UpdateEvent"}, Failures))
            => (result[w] = "error" /\ ~Upserted(w) /\ store = before[w])

\* a failed update of an existing record whose local copy had been rewritten
C4_Witness ==
    \E w \in Workers :
        /\ Done(w) /\ Issued(w, {"UpdateEvent"}, Failures)
        /\ Had(w) /\ card[w] # Prev(w)

(***************************************************************************)
(* C5: an open notification with a non-empty unparseable due date returns  *)
(* an error, issues no calendar call and no upsert, and leaves the table   *)
(* (the archived flag of the record included) as it was.                   *)
(***************************************************************************)
C5_ParseFailureAbortsUnchanged ==
    \A w \in Workers :
        (Done(w) /\ Relevant(w) /\ ~Incoming(w).Closed
         /\ Incoming(w).Due # "" /\ ~TimeParse(Incoming(w).Due).ok)
            => (result[w] = "error" /\ calls[w] = <<>> /\ ~Upserted(w)
                /\ store = before[w])

\* the record was archived, was loaded, and is still archived
C5_Witness ==
    \E w \in Workers :
        /\ Done(w) /\ Relevant(w) /\ ~Incoming(w).Closed
        /\ Incoming(w).Due = "tomorrow"
        /\ dbops[w] = <<"First:ok">>
        /\ Had(w) /\ Prev(w).Archived /\ Cur(w).Archived

(***************************************************************************)
(* C6 as stated: a pass whose deleteEvent failed still succeeds, i.e. it   *)
(* returns no error and has committed a record with an empty event id.     *)
(***************************************************************************)
C6_FailedDeletePassSucceeds ==
    \A w \in Workers :
        (Done(w) /\ Issued(w, {"DeleteEvent"}, {"error"}))
            => (result[w] = "ok" /\ Has(w) /\ Cur(w).EventID = "")

(***************************************************************************)
(* C6 as amended: a failed deleteEvent never aborts the pass: the pass     *)
(* goes on to upsert its record with an empty event id, and it returns an  *)
(* error only if that upsert itself fails, otherwise the committed record  *)
(* has an empty event id.                                                  *)
(***************************************************************************)
C6_FailedDeleteIsNotFatal ==
    \A w \in Workers :
        (Done(w) /\ Issued(w, {"DeleteEvent"}, {"error"}))
            => /\ Upserted(w) /\ card[w].EventID = ""
               /\ result[w] = "error" => dbops[w][Len(dbops[w])] = "Save:error"
               /\ result[w] = "ok" => (Has(w) /\ Cur(w) = card[w])

\* the delete failed while archiving and the pass committed
C6_Witness ==
    \E w \in Workers :
        /\ Done(w) /\ Issued(w, {"DeleteEvent"}, {"error"})
        /\ Incoming(w).Closed /\ result[w] = "ok"
        /\ Prev(w).EventID # "" /\ Cur(w).EventID = ""

(***************************************************************************)
(* C7: clearing the due date of a task in ACTIVE_WITH_EVENT (an open       *)
(* notification with an empty due field for a record that is not archived  *)
(* and has an event id) deletes the linked event and commits the record    *)
(* with an empty event id and no due date.                                 *)
(***************************************************************************)
C7_ClearingDueDateDeletesEvent ==
    \A w \in Workers :
        (Done(w) /\ Relevant(w) /\ result[w] = "ok"
         /\ ~Incoming(w).Closed /\ Incoming(w).Due = ""
         /\ Had(w) /\ ~Prev(w).Archived /\ Prev(w).EventID # "")
            => /\ \E i \in 1..Len(calls[w]) :
                      /\ calls[w][i].op = "DeleteEvent"
                      /\ calls[w][i].eventID = Prev(w).EventID
               /\ Cur(w).EventID = "" /\ Cur(w).DueDate = NilTime

(***************************************************************************)
(* C8: drift repair: an open notification with an empty due field for a    *)
(* record with a due date and no event id calls createEvent, never         *)
(* updateEvent, and on success commits the returned event id and leaves    *)
(* the value of the due date unchanged.                                    *)
(***************************************************************************)
C8_DriftRepairKeepsDueDate ==
    \A w \in Workers :
        (Done(w) /\ Relevant(w) /\ ~Incoming(w).Closed /\ Incoming(w).Due = ""
         /\ Had(w) /\ Prev(w).DueDate # NilTime /\ Prev(w).EventID = ""
         /\ dbops[w] # <<>> /\ dbops[w][1] = "First:ok")
            => /\ Len(calls[w]) = 1 /\ calls[w][1].op = "CreateEvent"
               /\ result[w] = "ok" =>
                    /\ Cur(w).EventID # ""
                    /\ Cur(w).EventID = calls[w][1].eventID
                    /\ Cur(w).DueDate = Prev(w).DueDate

(***************************************************************************)
(* C9: no-op drift: an open notification with an empty due field for a     *)
(* record with both a due date and an event id issues no calendar call and *)
(* leaves every field of the persisted record unchanged.                   *)
(***************************************************************************)
C9_NoOpDrift ==
    \A w \in Workers :
        (Done(w) /\ Relevant(w) /\ ~Incoming(w).Closed /\ Incoming(w).Due = ""
         /\ Had(w) /\ Prev(w).DueDate # NilTime /\ Prev(w).EventID # "")
            => (calls[w] = <<>> /\ Has(w) /\ Cur(w) = Prev(w))

\* such a pass went through its upsert
C9_Witness ==
    \E w \in Workers :
        /\ Done(w) /\ Relevant(w) /\ ~Incoming(w).Closed /\ Incoming(w).Due = ""
        /\ Had(w) /\ Prev(w).DueDate # NilTime /\ Prev(w).EventID # ""
        /\ dbops[w] = <<"First:ok", "Save:ok">>

(***************************************************************************)
(* C10: idempotent archive: a closed notification for a record that is     *)
(* already archived with an empty event id issues no calendar call and     *)
(* leaves the record as it was: archived, with an empty event id.          *)
(***************************************************************************)
C10_IdempotentArchive ==
    \A w \in Workers :
        (Done(w) /\ Relevant(w) /\ Incoming(w).Closed
         /\ Had(w) /\ Prev(w).Archived /\ Prev(w).EventID = "")
            => /\ calls[w] = <<>>
               /\ Has(w) /\ Cur(w) = Prev(w)
               /\ Cur(w).Archived /\ Cur(w).EventID = ""

\* the closed notification was processed again and committed
C10_Witness ==
    \E w \in Workers :
        /\ Done(w) /\ Relevant(w) /\ Incoming(w).Closed
        /\ Had(w) /\ Prev(w).Archived /\ Prev(w).EventID = ""
        /\ dbops[w] = <<"First:ok", "Save:ok">>

(***************************************************************************)
(* C11 as stated: when the remote answers "not found" to a delete,         *)
(* deleteEvent returns no error and the pass that asked for it commits the *)
(* record with an empty event id.                                          *)
(***************************************************************************)
NotFoundDeletes(w) ==
    {i \in 1..Len(calls[w]) :
        calls[w][i].op = "DeleteEvent" /\ calls[w][i].outcome = "notFound"}

C11_NotFoundDeleteCommits ==
    \A w \in Workers :
        (Done(w) /\ NotFoundDeletes(w) # {})
            => /\ \A i \in NotFoundDeletes(w) : ~calls[w][i].err
               /\ Has(w) /\ Cur(w).EventID = ""

(***************************************************************************)
(* C11 as amended: when the remote answers "not found" to a delete,        *)
(* deleteEvent returns no error and the pass goes on to upsert its record  *)
(* with an empty event id; the record is committed that way unless the     *)
(* upsert itself fails, which is the only error the pass can return.       *)
(***************************************************************************)
C11_NotFoundDeleteIsSuccess ==
    \A w \in Workers :
        (Done(w) /\ NotFoundDeletes(w) # {})
            => /\ \A i \in NotFoundDeletes(w) : ~calls[w][i].err
               /\ Upserted(w) /\ card[w].EventID = ""
               /\ result[w] = "error" => dbops[w][Len(dbops[w])] = "Save:error"
               /\ result[w] = "ok" => (Has(w) /\ Cur(w).EventID = "")

\* the event was already gone remotely; the pass cleared the stored id
C11_Witness ==
    \E w \in Workers :
        /\ Done(w) /\ NotFoundDeletes(w) # {} /\ result[w] = "ok"
        /\ Had(w) /\ Prev(w).EventID # "" /\ Cur(w).EventID = ""

(***************************************************************************)
(* C12: round trip.  From an empty store, a committed notification with a  *)
(* valid due date D, name n and board name b creates exactly one event,    *)
(* titled "[<first character of b>] n" and spanning day(D) to day(D)+1,    *)
(* and commits the returned id as event_id; a later committed closed       *)
(* notification for the task deletes exactly that event id and commits     *)
(* archived = true with an empty event id.                                 *)
(***************************************************************************)
RoundTripTitle(p) ==
    CASE p.Board.Name = "Eng" /\ p.Card.Name = "Ship release" -> "[E] Ship release"
      [] p.Board.Name = "Eng" /\ p.Card.Name = "Fix"          -> "[E] Fix"
      [] p.Board.Name = "" /\ p.Card.Name = "Ship release"    -> "[] Ship release"
      [] p.Board.Name = "" /\ p.Card.Name = "Fix"             -> "[] Fix"
      [] OTHER                                                -> "?"

RoundTripSpan(due) ==
    CASE due = "2025-03-10T00:00:00Z"   -> <<"2025-03-10", "2025-03-11">>
      [] due = "2025-03-12T09:30:00.5Z" -> <<"2025-03-12", "2025-03-13">>
      [] OTHER                          -> <<"?", "?">>

C12_RoundTrip ==
    \A w \in Workers :
        /\ (Done(w) /\ Relevant(w) /\ ~Incoming(w).Closed
            /\ TimeParse(Incoming(w).Due).ok
            /\ before[w] = EmptyStore /\ result[w] = "ok")
              => /\ Len(calls[w]) = 1
                 /\ calls[w][1].op = "CreateEvent" /\ calls[w][1].outcome = "ok"
                 /\ Has(w) /\ Cur(w).EventID = calls[w][1].eventID
                 /\ Cardinality({i \in 1..Len(events) :
                                    events[i].Id = Cur(w).EventID}) = 1
                 /\ \A i \in 1..Len(events) :
                        events[i].Id = Cur(w).EventID
                            => /\ events[i].Live
                               /\ events[i].Summary = RoundTripTitle(payload[w])
                               /\ <<events[i].Start, events[i].End>>
                                      = RoundTripSpan(Incoming(w).Due)
        /\ (Done(w) /\ Relevant(w) /\ Incoming(w).Closed
            /\ Had(w) /\ Prev(w).EventID # "" /\ result[w] = "ok")
              => /\ Len(calls[w]) = 1
                 /\ calls[w][1].op = "DeleteEvent"
                 /\ calls[w][1].eventID = Prev(w).EventID
                 /\ Cur(w).Archived /\ Cur(w).EventID = ""

\* the event of the first notification was deleted by the closed one
C12_Witness ==
    \E w \in Workers :
        /\ Done(w) /\ Incoming(w).Closed /\ result[w] = "ok"
        /\ Had(w) /\ Prev(w).EventID = "e1" /\ Prev(w).Name = "[E] Ship release"
        /\ Len(events) = 1 /\ ~events[1].Live
        /\ events[1].Summary = "[E] Ship release"
        /\ events[1].Start = "2025-03-10" /\ events[1].End = "2025-03-11"
        /\ Cur(w).Archived /\ Cur(w).EventID = ""

(***************************************************************************)
(* C14: a calendar call whose request fails with a network error or a 5xx  *)
(* is attempted again before its error is returned to the pass.            *)
(***************************************************************************)
C14_CalendarCallsAreRetried ==
    \A w \in Workers : \A i \in 1..Len(calls[w]) :
        (calls[w][i].outcome = "error" /\ calls[w][i].err)
            => calls[w][i].attempts > 1

(***************************************************************************)
(* C15: a notification of another action type, or without a task id, is    *)
(* accepted and changes nothing: no store call, no calendar call, the      *)
(* table as it was.                                                        *)
(***************************************************************************)
C15_IrrelevantNotificationIsNoOp ==
    \A w \in Workers :
        (Done(w) /\ ~Relevant(w))
            => (result[w] = "ok" /\ dbops[w] = <<>> /\ calls[w] = <<>>
                /\ store = before[w])

\* an update without a card id arrived while the table had records
C15_Witness ==
    \E w \in Workers :
        /\ Done(w) /\ payload[w].Type = "updateCard" /\ Incoming(w).ID = ""
        /\ result[w] = "ok" /\ store # EmptyStore

(***************************************************************************)
(* C20: when the final upsert fails, the pass returns an error, the        *)
(* handler answers with status 500, and the table is what it was before    *)
(* the pass.                                                               *)
(***************************************************************************)
SaveFailed(w) ==
    Done(w) /\ dbops[w] # <<>> /\ dbops[w][Len(dbops[w])] = "Save:error"

C20_SaveFailureIsReported ==
    [][\A w \in Workers :
          SaveFailed(w)
              => /\ result[w] = "error" /\ store = before[w]
                 /\ pc'[w] = "idle" => (status'[w] = 500 /\ store' = store)]_vars

\* the upsert that failed would have changed the record
C20_Witness ==
    \E w \in Workers :
        /\ SaveFailed(w) /\ Had(w) /\ card[w] # Prev(w)


(***************************************************************************)
(* Vocabulary of the lifecycle properties.                                 *)
(***************************************************************************)
Past(step) ==
    \/ sigpc \in {"spawn", "end"}
    \/ /\ \E i \in 1..Len(CleanupOrder) : CleanupOrder[i] = sigpc
       /\ StepIndex(sigpc) > StepIndex(step)

(***************************************************************************)
(* C13: retry.Do, as RegisterWebhook and DeleteWebhook use it, runs the    *)
(* wrapped function up to the first success or terminal failure and never  *)
(* more than 3 times: every attempt but the last was a retryable failure   *)
(* (network error or 5xx); it returns nil exactly after a success, and an  *)
(* error exactly after a terminal failure or after the third retryable     *)
(* failure; while it has not returned, fewer than 3 attempts were made.    *)
(***************************************************************************)
C13_RetryCeiling ==
    LET t == retry.tries
        n == Len(t)
    IN /\ n <= 3
       /\ \A i \in 1..(n - 1) : t[i] = "retryable"
       /\ retry.returned = "pending"
             => (n < 3 /\ \A i \in 1..n : t[i] = "retryable")
       /\ retry.returned = "ok" => (n >= 1 /\ t[n] = "success")
       /\ retry.returned = "error"
             => /\ n >= 1
                /\ t[n] = "terminal" \/ (n = 3 /\ t[n] = "retryable")
       /\ \A http \in RegisterHTTP :
             /\ RegisterOutcome(http) = "retryable"
                   <=> http \in {"networkError", "status5xx"}
             /\ RegisterOutcome(http) = "success" <=> http = "ok"
       /\ \A http \in DeleteHTTP :
             /\ DeleteOutcome(http) = "retryable"
                   <=> http \in {"networkError", "status5xx"}
             /\ DeleteOutcome(http) = "success" <=> http = "ok"

\* a DeleteWebhook that met three retryable failures and returned an error
C13_Witness ==
    /\ retry.op = "DeleteWebhook"
    /\ retry.tries = <<"retryable", "retryable", "retryable">>
    /\ retry.returned = "error"

(***************************************************************************)
(* C16: when RegisterWebhook fails for a configured board the process does *)
(* not go on running, and it does not end with only a proper non-empty     *)
(* subset of the configured boards having a webhook at Trello.             *)
(***************************************************************************)
C16_NoPartialSubscriptionSet ==
    /\ (retry.op = "RegisterWebhook" /\ retry.returned = "error")
          => exit # "running"
    /\ exit = "fatal" => (hooks = {} \/ hooks = AllHooks)

(***************************************************************************)
(* C17: DeleteWebhook is called at most once per webhook, and once the     *)
(* deregistration loop is over it has been called exactly once for every   *)
(* webhook in webhookIDs, whether or not some of the calls failed.         *)
(***************************************************************************)
C17_DeregisterEveryWebhookOnce ==
    /\ \A h \in AllHooks : delCalls[h] <= 1
    /\ Past("deregister") => \A h \in Registered : delCalls[h] = 1

\* the loop is over, one delete failed and another webhook was deleted
C17_Witness ==
    /\ Past("deregister")
    /\ \E h \in delFailed, g \in Registered \ delFailed :
          /\ delCalls[h] = 1 /\ delCalls[g] = 1
          /\ h \in hooks /\ g \notin hooks

(***************************************************************************)
(* C18: cleanup runs in order: srv.Shutdown has returned only after the    *)
(* server stopped accepting, and it returned nil only with no request in   *)
(* service; no DeleteWebhook starts before srv.Shutdown has returned; the  *)
(* database is closed only after srv.Shutdown has returned and every       *)
(* webhook's DeleteWebhook call has returned.                              *)
(***************************************************************************)
C18_ShutdownOrder ==
    /\ shutdownResult # "none" => ~accepting
    /\ shutdownResult = "graceful" => \A w \in Workers : pc[w] = "idle"
    /\ (visited # {} \/ Pending("DeleteWebhook")) => shutdownResult # "none"
    /\ ~dbOpen
          => /\ shutdownResult # "none"
             /\ ~Pending("DeleteWebhook")
             /\ \A h \in Registered : h \in visited /\ delCalls[h] = 1

\* the database is closed after a shutdown wait that timed out and a failed
\* delete
C18_Witness ==
    /\ ~dbOpen
    /\ shutdownResult = "timeout"
    /\ delFailed # {}

(***************************************************************************)
(* C19: once the database is closed during cleanup, no pass is at a point  *)
(* from which it can still issue a calendar call, DB.First or DB.Save.     *)
(***************************************************************************)
C19_NoPassInFlightAfterClose ==
    (~dbOpen /\ exit = "running")
        => \A w \in Workers : pc[w] \in {"idle", "done"}


(***************************************************************************)
(* Further vocabulary: the live events made for a card are told by the     *)
(* card's URL in their description.                                        *)
(***************************************************************************)
LiveEventsOf(t) ==
    {i \in 1..Len(events) :
        /\ events[i].Live
        /\ events[i].Description
             = "Trello Card: https://trello.com/c/" \o ShortLinkOf(t)}

CallsOf(w, ops) == {i \in 1..Len(calls[w]) : calls[w][i].op \in ops}

(***************************************************************************)
(* C21: a pass for a closed notification issues no CreateEvent and no      *)
(* UpdateEvent, whatever its due field and whatever the stored record; it  *)
(* issues at most one call, a DeleteEvent of the stored record's event id, *)
(* and the stored due date is what it was.                                 *)
(***************************************************************************)
C21_ClosedNeverSyncs ==
    \A w \in Workers :
        (Done(w) /\ Relevant(w) /\ Incoming(w).Closed)
            => /\ CallsOf(w, {"CreateEvent", "UpdateEvent"}) = {}
               /\ Len(calls[w]) <= 1
               /\ \A i \in CallsOf(w, {"DeleteEvent"}) :
                     /\ Had(w) /\ Prev(w).EventID # ""
                     /\ calls[w][i].eventID = Prev(w).EventID
               /\ Had(w) => (Has(w) /\ Cur(w).DueDate = Prev(w).DueDate)

\* a committed closed notification that carries a due date other than the
\* stored one, for a record that had an event
C21_Witness ==
    \E w \in Workers :
        /\ Done(w) /\ result[w] = "ok" /\ Incoming(w).Closed
        /\ Incoming(w).Due # ""
        /\ Had(w) /\ Prev(w).EventID # ""
        /\ Issued(w, {"DeleteEvent"}, {"ok"})
        /\ Cur(w).Archived
        /\ Cur(w).DueDate # NilTime
        /\ Cur(w).DueDate # TimeParse(Incoming(w).Due).t

(***************************************************************************)
(* C22: a committed pass for an open notification on an archived record    *)
(* stores archived = false and handles the due date in the same pass: with *)
(* a due field it creates an event; with an empty due field and a stored   *)
(* due date it creates an event on the stored due date's day; with neither *)
(* it issues no call and stores an empty event id and a nil due date.      *)
(* No pass starting from the empty table stores an archived record without *)
(* a due date under its task id, so the last case is also stated of        *)
(* reconcile applied to such a record.                                     *)
(***************************************************************************)
C22_UnarchiveFallsThrough ==
    /\ \A p \in TrelloWebhookPayload :
          (/\ p.Type = "updateCard" /\ p.Card.ID # ""
           /\ ~p.Card.Closed /\ p.Card.Due = "")
              => LET c0 == [ZeroCard EXCEPT !.ID = p.Card.ID, !.Archived = TRUE]
                     r == reconcile([card |-> c0, events |-> events,
                                     calls |-> <<>>, linked |-> linked,
                                     err |-> FALSE], p, "ok")
                 IN /\ ~r.err /\ r.calls = <<>> /\ r.events = events
                    /\ r.card = [c0 EXCEPT !.Archived = FALSE]
                    /\ dbSave(store, r.card).store[p.Card.ID] = r.card
    /\ \A w \in Workers :
        (/\ Done(w) /\ Relevant(w) /\ result[w] = "ok"
         /\ ~Incoming(w).Closed /\ Had(w) /\ Prev(w).Archived)
            => /\ Has(w) /\ ~Cur(w).Archived
               /\ (Incoming(w).Due # "" \/ Prev(w).DueDate # NilTime)
                     => /\ Len(calls[w]) = 1
                        /\ Issued(w, {"CreateEvent"}, {"ok"})
                        /\ Cur(w).EventID = calls[w][1].eventID
                        /\ LiveEvent(events, Cur(w).EventID)
               /\ (Incoming(w).Due = "" /\ Prev(w).DueDate # NilTime)
                     => \E i \in 1..Len(events) :
                           /\ events[i].Id = Cur(w).EventID
                           /\ events[i].Start = DateFormat(Prev(w).DueDate)
               /\ (Incoming(w).Due = "" /\ Prev(w).DueDate = NilTime)
                     => /\ calls[w] = <<>>
                        /\ Cur(w).EventID = "" /\ Cur(w).DueDate = NilTime

\* an archived record is reopened by a notification without a due date and
\* gets an event from its stored due date
C22_Witness ==
    \E w \in Workers :
        /\ Done(w) /\ result[w] = "ok" /\ ~Incoming(w).Closed
        /\ Incoming(w).Due = ""
        /\ Had(w) /\ Prev(w).Archived /\ Prev(w).DueDate # NilTime
        /\ ~Cur(w).Archived /\ Cur(w).EventID # ""
        /\ Issued(w, {"CreateEvent"}, {"ok"})

(***************************************************************************)
(* C23: when UpdateEvent fails for a record with an event id, be it that   *)
(* the event no longer exists remotely, the pass returns an error, no      *)
(* CreateEvent is issued and the table is as it was.                       *)
(***************************************************************************)
C23_UpdateFailureIsHard ==
    \A w \in Workers :
        (Done(w) /\ Issued(w, {"UpdateEvent"}, {"notFound", "error"}))
            => /\ result[w] = "error"
               /\ CallsOf(w, {"CreateEvent"}) = {}
               /\ store = before[w]
               /\ Had(w) /\ Cur(w).EventID # ""

\* the update of an event that is gone from the calendar
C23_Witness ==
    \E w \in Workers :
        /\ Done(w) /\ Issued(w, {"UpdateEvent"}, {"notFound"})
        /\ Had(w) /\ ~LiveEvent(events, Prev(w).EventID)

(***************************************************************************)
(* C24: a pass for task id T leaves every row of the table whose key is    *)
(* not T as it was and creates no row under another key.                   *)
(***************************************************************************)
C24_OnlyOwnRecordWritten ==
    \A w \in Workers :
        (Done(w) /\ Relevant(w))
            => \A k \in (DOMAIN store \cup DOMAIN before[w]) \ {Incoming(w).ID} :
                  /\ k \in DOMAIN store /\ k \in DOMAIN before[w]
                  /\ store[k] = before[w][k]

(***************************************************************************)
(* C28: every stored record with an event id has a due date, whatever      *)
(* failed on the way; so the delete in deleteCalendarEvent, reached only   *)
(* with a nil due date, is never issued: a pass for an open notification   *)
(* issues no DeleteEvent.                                                  *)
(***************************************************************************)
C28_EventIdImpliesDueDate ==
    /\ \A k \in DOMAIN store :
          store[k].EventID # "" => store[k].DueDate # NilTime
    /\ \A w \in Workers :
          card[w].EventID # "" => card[w].DueDate # NilTime
    /\ \A w \in Workers :
          ~Incoming(w).Closed => CallsOf(w, {"DeleteEvent"}) = {}

\* after a failed call, an open notification without a due date reaches
\* deleteCalendarEvent while another record holds an event
C28_Witness ==
    \E w \in Workers :
        /\ pc[w] = "reconciled" /\ Relevant(w) /\ ~Incoming(w).Closed
        /\ Incoming(w).Due = ""
        /\ card[w].DueDate = NilTime /\ card[w].EventID = ""
        /\ calls[w] = <<>>
        /\ \E k \in DOMAIN store : store[k].EventID # ""
        /\ \E i \in 1..Len(events) : ~events[i].Live


(***************************************************************************)
(* C25: with every call succeeding, two live events for one card, of which *)
(* the stored record can name only one, exist only after two passes for    *)
(* that card overlapped; passes that run one after the other never get     *)
(* there.  The witness is the interleaving in which both passes load the   *)
(* same (absent) record, both create an event and the record committed     *)
(* last names only its own event.                                          *)
(***************************************************************************)
C25_LostUpdateNeedsOverlap ==
    (\E t \in TaskIds : Cardinality(LiveEventsOf(t)) >= 2) => overlapped

\* both passes loaded the same table, both created an event, both committed
C25_Witness ==
    /\ overlapped
    /\ \A w \in Workers :
          /\ Done(w) /\ result[w] = "ok"
          /\ before[w] = EmptyStore
          /\ Issued(w, {"CreateEvent"}, {"ok"})
    /\ \E t \in TaskIds :
          /\ Cardinality(LiveEventsOf(t)) = 2
          /\ t \in DOMAIN store
          /\ \E i \in LiveEventsOf(t) : events[i].Id = store[t].EventID
          /\ \E i \in LiveEventsOf(t) : events[i].Id # store[t].EventID


(***************************************************************************)
(* C26: cleanup is entered at most once, and a second signal ends the      *)
(* process at once, also while cleanup is running: with a signal waiting   *)
(* in sigCh, cleanup takes no further step.                                *)
(***************************************************************************)
C26_SecondSignalExitsAtOnce ==
    [][/\ (sigpc # "wait" /\ sigpc' # sigpc) => sigpc' # CleanupOrder[1]
       /\ (/\ exit = "running" /\ sigCh > 0
           /\ \E i \in 1..Len(CleanupOrder) : CleanupOrder[i] = sigpc)
             => /\ sigpc' = sigpc /\ accepting' = accepting
                /\ delCalls' = delCalls /\ retry' = retry
                /\ dbOpen' = dbOpen /\ done' = done]_vars

(***************************************************************************)
(* C27: a health check writes exactly one outcome, and none of them is     *)
(* "healthy" when the database was not reachable.                          *)
(***************************************************************************)
C27_HealthOneOutcome ==
    /\ Len(health) <= 1
    /\ \A i, j \in 1..Len(health) :
          health[i].error = "database" => health[j].status # "healthy"


(***************************************************************************)
(* C29: under serialized delivery with every call succeeding, between      *)
(* passes each card has at most one live event, and it has one exactly     *)
(* when its stored record has an event id, which is then that event's id.  *)
(***************************************************************************)
C29_OneLiveEventPerTask ==
    Quiescent
        => \A t \in TaskIds :
              /\ Cardinality(LiveEventsOf(t)) <= 1
              /\ Cardinality(LiveEventsOf(t)) = 1 <=> PersistedEventID(t) # ""
              /\ \A i \in LiveEventsOf(t) : events[i].Id = PersistedEventID(t)

\* a card has its one live event after an earlier event of the calendar was
\* deleted
C29_Witness ==
    /\ Quiescent
    /\ \E t \in TaskIds :
          /\ Cardinality(LiveEventsOf(t)) = 1
          /\ PersistedEventID(t) # ""
    /\ \E i \in 1..Len(events) : ~events[i].Live

(***************************************************************************)
(* C30: under serialized delivery with every call succeeding, from any     *)
(* table and calendar the passes have produced, processing a notification  *)
(* twice in a row leaves the table and the live events that processing it  *)
(* once leaves, and the second pass issues no CreateEvent.                 *)
(***************************************************************************)
C30_RedeliveryIsIdempotent ==
    (\A w \in Workers : pc[w] = "idle")
        => \A p \in TrelloWebhookPayload :
              LET once == processCardUpdate(store, events, linked, p)
                  twice == processCardUpdate(once.store, once.events,
                                             once.linked, p)
                  Live(evs) == {evs[i] : i \in {j \in 1..Len(evs) : evs[j].Live}}
              IN /\ twice.store = once.store
                 /\ Live(twice.events) = Live(once.events)
                 /\ \A i \in 1..Len(twice.calls) :
                       twice.calls[i].op # "CreateEvent"

\* a notification with a due date has just created the card's event; its
\* redelivery updates that event and changes nothing
C30_Witness ==
    /\ \A w \in Workers : pc[w] = "idle"
    /\ \E p \in TrelloWebhookPayload :
          LET again == processCardUpdate(store, events, linked, p)
          IN /\ p.Card.ID \in DOMAIN store
             /\ store[p.Card.ID].EventID # ""
             /\ store[p.Card.ID].DueDate = TimeParse(p.Card.Due).t
             /\ again.store = store
             /\ Len(again.calls) = 1 /\ again.calls[1].op = "UpdateEvent"
             /\ again.calls[1].outcome = "ok"

====
